---- MODULE Spec2Model ----
(***************************************************************************)
(* Model of pubchem.py: a Streamlit page that fetches molecule images from *)
(* PubChem, stitches uploaded images into a video and a GIF, and answers   *)
(* FAQ questions by fuzzy matching.                                        *)
(*                                                                         *)
(* Spec          the page: every user interaction reruns the script from   *)
(*               top to bottom, one action per top-level `if` block.       *)
(* SpecAssemble  create_video_and_gif called on a folder listing, one      *)
(*               action per statement group (the page itself never gets    *)
(*               there: save_uploaded_files is not defined in the file).   *)
(***************************************************************************)
EXTENDS Integers, Sequences, FiniteSets, TLC

VARIABLES
    \* ---- the libraries the script runs on.  The file pins no versions, and
    \* two calls behave differently from one release to another:
    \*   st.button with a label already used (line 194): the framework
    \*     refuses a second widget with the same generated id and aborts the
    \*     run ("rejected"), or hands it the state of the first ("shared");
    \*   process.extractOne (line 161): older releases return (choice, score),
    \*     current ones (choice, score, index).
    duplicateButton,
    extractOneArity,
    \* ---- widget values, kept across reruns
    molecule_name, structure_type, fps, uploaded_files, user_input,
    \* ---- the current script run
    trigger,           \* the interaction that started this run
    pc,                \* position of the run in the script
    rendered,          \* widgets the run has put on the page so far
    calls,             \* the handler bodies this run has executed, in order
    \* ---- the working directory
    files,             \* paths written by img.save
    \* ---- create_video_and_gif (SpecAssemble)
    apc, folder, afps, images, clip, progress, written, outputs, aret, amsgs

pageVars == <<duplicateButton, extractOneArity, molecule_name, structure_type,
              fps, uploaded_files, user_input, trigger, pc, rendered, calls, files>>
asmVars  == <<apc, folder, afps, images, clip, progress, written, outputs, aret, amsgs>>
vars     == <<pageVars, asmVars>>

(***************************************************************************)
(* Bounds and program constants                                            *)
(***************************************************************************)
MaxUploads    == 1     \* most files held by the uploader
MaxScoredKeys == 2     \* FAQ keys the similarity may score above zero
MaxFiles      == 3     \* most entries in a folder handed to the assembler

MinFps        == 1     \* slider min_value
MaxFps        == 30    \* slider max_value
DefaultFps    == 12    \* slider value
Threshold     == 75    \* confidence threshold of get_best_match
HttpOk        == 200
NumConformerFrames == 30    \* range(1, 31)

MoleculeNames  == {"", "Water", "Benzene"}
StructureTypes == {"2D Structure", "3D Structure"}
FpsChoices     == {MinFps, DefaultFps, MaxFps}
UploadNames    == {"1.png", "2.jpg"}
Uploads        == {u \in SUBSET UploadNames : Cardinality(u) <= MaxUploads}

(***************************************************************************)
(* The network: requests.get either raises or returns a response           *)
(***************************************************************************)
StatusCodes == {HttpOk, 404, 503}
NetOutcomes ==
    {[kind |-> "response", status |-> HttpOk, content |-> "png"]}
    \cup [kind : {"response"}, status : StatusCodes, content : {"other"}]
    \cup {[kind |-> "ConnectionError", status |-> 0, content |-> "none"]}

\* What a handler body did: the requests it sent, what its function returned,
\* the exception that ended it if one did, the messages it put on the page
\* (emoji dropped) and the video it encoded.
NoCall == [requests |-> <<>>, ret |-> "None", exc |-> "none", msgs |-> <<>>,
           video |-> <<>>]

\* lines 38-39: the URL of the image request
ImageUrl(name, stype) ==
    LET structure_code == IF stype = "2D Structure" THEN "2d" ELSE "3d"
    IN  "https://pubchem.ncbi.nlm.nih.gov/rest/pug/compound/name/" \o name
        \o "/PNG?record_type=" \o structure_code

\* line 211
ConformerUrl(name) ==
    "https://pubchem.ncbi.nlm.nih.gov/rest/pug/compound/name/" \o name
    \o "/record/3d/JSON"

\* lines 38-47: the request and what becomes of its answer
RequestImage(name, stype, net) ==
    LET sent == [NoCall EXCEPT !.requests = <<ImageUrl(name, stype)>>]
    IN  IF net.kind = "ConnectionError"               \* line 41 raises
        THEN [sent EXCEPT !.exc = "ConnectionError"]
        ELSE IF net.status = HttpOk
        THEN IF net.content = "png"
             THEN [sent EXCEPT !.ret = "Image"]
             ELSE [sent EXCEPT !.exc = "UnidentifiedImageError"]   \* line 44 raises
        ELSE [sent EXCEPT !.msgs =
                 <<"error: Molecule image not found. Check the name and try again.">>]

\* A fetch that skips the empty-name check.
fetch_pubchem_image_NoEmptyCheck(name, stype, net) == RequestImage(name, stype, net)

\* A fetch that asks again after a non-success answer.
fetch_pubchem_image_Retry(name, stype, net) ==
    LET once == RequestImage(name, stype, net)
    IN  IF name = ""
        THEN [NoCall EXCEPT !.msgs = <<"warning: Please enter a molecule name.">>]
        ELSE IF net.kind = "response" /\ net.status # HttpOk
        THEN [once EXCEPT !.requests = @ \o @]
        ELSE once

\* lines 33-47 (and its copy, lines 178-192)
fetch_pubchem_image(name, stype, net) ==
    IF name = ""
    THEN [NoCall EXCEPT !.msgs = <<"warning: Please enter a molecule name.">>]
    ELSE RequestImage(name, stype, net)

\* line 56
ImagePath(name) == name \o ".png"

\* A handler that saves whatever fetch handed back.
FetchImageButton_SaveAlways(name, stype, net, fsys) ==
    LET r == fetch_pubchem_image(name, stype, net)
    IN  [r EXCEPT !.msgs = @ \o <<"success: Image Fetched & Saved!">>]
        @@ [saved |-> <<ImagePath(name)>>,
            fsBefore |-> fsys, fsAfter |-> fsys \cup {ImagePath(name)}]

\* lines 49-58 (and its copy, lines 194-203): the body of the Fetch Image button
FetchImageButton(name, stype, net, fsys) ==
    LET r == fetch_pubchem_image(name, stype, net)
    IN  IF r.exc = "none" /\ r.ret = "Image"
        THEN [r EXCEPT !.msgs = @ \o <<"success: Image Fetched & Saved!">>]
             @@ [saved |-> <<ImagePath(name)>>,
                 fsBefore |-> fsys, fsAfter |-> fsys \cup {ImagePath(name)}]
        ELSE r @@ [saved |-> <<>>, fsBefore |-> fsys, fsAfter |-> fsys]


\* lines 219-223: the placeholder frames, frame_1.png .. frame_30.png
ConformerFrames == [i \in 1..NumConformerFrames |-> "frame_" \o ToString(i) \o ".png"]

\* lines 206-232: fetch_3d_conformer_video; f is the global fps, enc is what
\* write_videofile does
fetch_3d_conformer_video(name, net, enc, f) ==
    IF name = ""
    THEN [NoCall EXCEPT !.msgs = <<"warning: Please enter a molecule name.">>]
    ELSE IF net.kind = "ConnectionError"
    THEN [NoCall EXCEPT !.requests = <<ConformerUrl(name)>>, !.exc = "ConnectionError"]
    ELSE IF net.status = HttpOk
    THEN IF enc = "ok"
         THEN [NoCall EXCEPT !.requests = <<ConformerUrl(name)>>,
                             !.ret = name \o "_3d_conformer.mp4",
                             !.video = [frames |-> ConformerFrames, fps |-> f]]
         ELSE [NoCall EXCEPT !.requests = <<ConformerUrl(name)>>, !.exc = "OSError"]
    ELSE [NoCall EXCEPT !.requests = <<ConformerUrl(name)>>,
                        !.msgs = <<"error: 3D Conformer not found. Check the molecule name.">>]

\* lines 235-248: the body of the Download 3D Conformer Video button
ConformerButton(name, net, enc, f, fsys) ==
    LET r == fetch_3d_conformer_video(name, net, enc, f)
    IN  (IF r.exc = "none" /\ r.ret # "None"
         THEN [r EXCEPT !.msgs = @ \o <<"success: 3D Conformer Video Created Successfully!",
                                        "download: " \o r.ret>>]
         ELSE r)
        @@ [saved |-> <<>>, fsBefore |-> fsys, fsAfter |-> fsys]

\* lines 106-123: the body of the Create Video & GIF button.  Line 109 calls
\* save_uploaded_files, a name the file never binds: NameError.
CreateVideoButton(uploaded, fsys) ==
    (IF uploaded # {}
     THEN [NoCall EXCEPT !.msgs = <<"info: Processing images... This may take a few seconds.">>,
                         !.exc = "NameError"]
     ELSE [NoCall EXCEPT !.msgs = <<"warning: Please upload images first.">>])
    @@ [saved |-> <<>>, fsBefore |-> fsys, fsAfter |-> fsys]

(***************************************************************************)
(* The FAQ chatbot                                                         *)
(***************************************************************************)
\* lines 129-157, in insertion order
faq_data == <<
    [q |-> "What does this app do?",
     a |-> "This app converts a series of molecule images into a smooth video or GIF."],
    [q |-> "Who can use this app?",
     a |-> "Anyone! Researchers, students, and professionals working with molecule animations."],
    [q |-> "Is this app free to use?",
     a |-> "Yes! It is completely free to use."],
    [q |-> "Can I use this app on mobile devices?",
     a |-> "Yes, but for better experience, use it on a desktop or tablet."],
    [q |-> "What file types are supported for uploading?",
     a |-> "PNG, JPG, and JPEG formats are supported."],
    [q |-> "How many images can I upload at once?",
     a |-> "There is no strict limit, but too many images may slow down processing."],
    [q |-> "Can I upload images in any order?",
     a |-> "The app sorts images alphabetically, so rename them (1.png, 2.png, etc.)."],
    [q |-> "How does this app convert images into a video?",
     a |-> "It stitches your images together using MoviePy."],
    [q |-> "How long does it take to create a video?",
     a |-> "Processing time depends on the number of images and FPS settings."],
    [q |-> "What FPS should I choose?",
     a |-> "12-24 FPS is ideal for smooth animations."],
    [q |-> "What is the difference between a video and a GIF?",
     a |-> "Videos are MP4 format with better quality, while GIFs are more compressed."],
    [q |-> "Can I create both a video and a GIF at the same time?",
     a |-> "Yes, the app generates both simultaneously."],
    [q |-> "How do I download my video or GIF?",
     a |-> "Click the download button after processing is complete."],
    [q |-> "Where is my downloaded file saved?",
     a |-> "It is saved in your default 'Downloads' folder."],
    [q |-> "Will my uploaded images be stored on the server?",
     a |-> "No, uploaded images are processed temporarily and not stored."],
    [q |-> "Why is my video not generating?",
     a |-> "Check if you uploaded images and selected FPS properly."],
    [q |-> "Why does my video appear blurry?",
     a |-> "Use high-quality images for the best results."],
    [q |-> "Why is the animation too fast or too slow?",
     a |-> "Adjust the FPS settings in the sidebar."] >>

FaqKeys    == {faq_data[i].q : i \in DOMAIN faq_data}
Fallback   == "Sorry, I couldn't understand your question. Try rephrasing!"

\* what the user may type in the sidebar
Questions == {"", "Is this app free to use?", "is it free?",
              "what is the weather today?"}

\* The similarity of a question to every key, as the library may score it: a
\* key equal to the question scores 100 and no other key does; at most two of
\* the first MaxScoredKeys other keys score above zero.
Scorings(question) ==
    LET top == IF question \in FaqKeys THEN 99 ELSE 100
    IN  { [i \in DOMAIN faq_data |->
              IF faq_data[i].q = question THEN 100
              ELSE IF i = k1 THEN s1
              ELSE IF i = k2 THEN s2
              ELSE 0]
          : k1 \in 1..MaxScoredKeys, k2 \in 1..MaxScoredKeys,
            s1 \in {0, Threshold - 1, Threshold, Threshold + 1, top},
            s2 \in {0, Threshold, Threshold + 1, top} }

\* the highest score and the first key that has it
Best(scores) ==
    LET top == CHOOSE s \in {scores[i] : i \in DOMAIN scores} :
                   \A j \in DOMAIN scores : scores[j] <= s
    IN  [score |-> top,
         key   |-> faq_data[CHOOSE i \in DOMAIN scores :
                       scores[i] = top /\ \A j \in 1..(i - 1) : scores[j] # top].q]

\* process.extractOne over faq_data.keys(): the first key of the highest
\* score; the build decides whether the index comes with it
extractOne(scores, arity) ==
    LET best == CHOOSE i \in DOMAIN faq_data :
                    /\ \A j \in DOMAIN faq_data : scores[j] <= scores[i]
                    /\ \A j \in 1..(i - 1) : scores[j] < scores[i]
    IN  IF arity = 2 THEN <<faq_data[best].q, scores[best]>>
        ELSE <<faq_data[best].q, scores[best], best - 1>>

\* faq_data[best_match]
FaqAnswer(key) == (CHOOSE i \in DOMAIN faq_data : faq_data[i].q = key)

\* lines 160-166: get_best_match; line 161 unpacks the tuple into two names
get_best_match(scores, arity) ==
    LET t == extractOne(scores, arity)
    IN  IF Len(t) # 2
        THEN [NoCall EXCEPT !.exc = "ValueError"]
        ELSE LET best_match == t[1]
                 confidence == t[2]
             IN  IF confidence > Threshold
                 THEN [NoCall EXCEPT !.ret = faq_data[FaqAnswer(best_match)].a]
                 ELSE [NoCall EXCEPT !.ret = Fallback]

\* lines 173-175: the sidebar's answer
ChatbotHandler(scores, arity, fsys) ==
    LET r == get_best_match(scores, arity)
    IN  (IF r.exc = "none"
         THEN [r EXCEPT !.msgs = <<"Answer: " \o r.ret>>]
         ELSE r)
        @@ [saved |-> <<>>, fsBefore |-> fsys, fsAfter |-> fsys]


(***************************************************************************)
(* The page: one script run per user interaction                           *)
(***************************************************************************)
RunEnded == pc \in {"done", "crashed"}

\* lines 12-30: what every run renders before the first button
TopWidgets == {"fps", "molecule_name", "structure_type"}

AsmIdle ==
    /\ apc = "idle" /\ folder = <<>> /\ afps = DefaultFps /\ images = <<>>
    /\ clip = <<>> /\ progress = <<>> /\ written = {} /\ outputs = {}
    /\ aret = <<>> /\ amsgs = <<>>

\* A run starts at the top of the script with the widget values of the moment.
StartRun(t) ==
    /\ trigger' = t
    /\ pc' = "L49"
    /\ rendered' = TopWidgets
    /\ calls' = <<>>
    /\ UNCHANGED <<duplicateButton, extractOneArity, files, asmVars>>

Init ==
    /\ duplicateButton \in {"rejected", "shared"}
    /\ extractOneArity \in {2, 3}
    /\ molecule_name = ""
    /\ structure_type = "2D Structure"
    /\ fps = DefaultFps
    /\ uploaded_files = {}
    /\ user_input = ""
    /\ trigger = "widget"
    /\ pc = "L49"
    /\ rendered = TopWidgets
    /\ calls = <<>>
    /\ files = {}
    /\ AsmIdle

\* ---- user interactions (each reruns the script)
SetMoleculeName ==
    /\ RunEnded /\ "molecule_name" \in rendered
    /\ \E n \in MoleculeNames \ {molecule_name} : molecule_name' = n
    /\ StartRun("widget")
    /\ UNCHANGED <<structure_type, fps, uploaded_files, user_input>>

SetStructureType ==
    /\ RunEnded /\ "structure_type" \in rendered
    /\ \E t \in StructureTypes \ {structure_type} : structure_type' = t
    /\ StartRun("widget")
    /\ UNCHANGED <<molecule_name, fps, uploaded_files, user_input>>

SetFps ==
    /\ RunEnded /\ "fps" \in rendered
    /\ \E f \in FpsChoices \ {fps} : fps' = f
    /\ StartRun("widget")
    /\ UNCHANGED <<molecule_name, structure_type, uploaded_files, user_input>>

Upload ==
    /\ RunEnded /\ "uploader" \in rendered
    /\ \E u \in Uploads \ {uploaded_files} : uploaded_files' = u
    /\ StartRun("widget")
    /\ UNCHANGED <<molecule_name, structure_type, fps, user_input>>

SubmitQuestion ==
    /\ RunEnded /\ "chat" \in rendered
    /\ \E q \in Questions \ {user_input} : user_input' = q
    /\ StartRun(IF user_input' = "" THEN "widget" ELSE "question")
    /\ UNCHANGED <<molecule_name, structure_type, fps, uploaded_files>>

ClickFetch ==
    /\ RunEnded /\ "fetch" \in rendered
    /\ StartRun("fetch")
    /\ UNCHANGED <<molecule_name, structure_type, fps, uploaded_files, user_input>>

ClickCreate ==
    /\ RunEnded /\ "create" \in rendered
    /\ StartRun("create")
    /\ UNCHANGED <<molecule_name, structure_type, fps, uploaded_files, user_input>>

ClickConformer ==
    /\ RunEnded /\ "conformer" \in rendered
    /\ StartRun("conformer")
    /\ UNCHANGED <<molecule_name, structure_type, fps, uploaded_files, user_input>>

\* ---- the script, block by block
widgets == <<molecule_name, structure_type, fps, uploaded_files, user_input>>
build   == <<duplicateButton, extractOneArity>>

\* An executed handler body: recorded with what the outside world handed it,
\* and the run goes on or dies with it.
Ran(handler, input, r, next) ==
    /\ calls' = Append(calls, r @@ [handler |-> handler, input |-> input])
    /\ files' = r.fsAfter
    /\ pc' = IF r.exc = "none" THEN next ELSE "crashed"

Skip(next) ==
    /\ pc' = next
    /\ UNCHANGED <<calls, files>>

\* lines 49-58
Line49 ==
    /\ pc = "L49"
    /\ rendered' = rendered \cup {"fetch"}
    /\ IF trigger = "fetch"
       THEN \E net \in NetOutcomes :
                Ran("fetch_L49", net,
                    FetchImageButton(molecule_name, structure_type, net, files), "L106")
       ELSE Skip("L106")
    /\ UNCHANGED <<widgets, build, trigger, asmVars>>

\* lines 74-123
Line106 ==
    /\ pc = "L106"
    /\ rendered' = rendered \cup {"uploader", "create"}
    /\ IF trigger = "create"
       THEN Ran("create_L106", uploaded_files, CreateVideoButton(uploaded_files, files), "L173")
       ELSE Skip("L173")
    /\ UNCHANGED <<widgets, build, trigger, asmVars>>

\* lines 171-175
Line173 ==
    /\ pc = "L173"
    /\ rendered' = rendered \cup {"chat"}
    /\ IF user_input # ""
       THEN \E scores \in Scorings(user_input) :
                Ran("chat_L173", Best(scores), ChatbotHandler(scores, extractOneArity, files), "L194")
       ELSE Skip("L194")
    /\ UNCHANGED <<widgets, build, trigger, asmVars>>

\* lines 194-203: a second button with the label of the first.  The
\* framework either refuses the repeated widget (the run dies there) or
\* gives it the state of the first.
Line194 ==
    /\ pc = "L194"
    /\ UNCHANGED rendered
    /\ IF duplicateButton = "rejected"
       THEN /\ pc' = "crashed"
            /\ UNCHANGED <<calls, files>>
       ELSE IF trigger = "fetch"
       THEN \E net \in NetOutcomes :
                Ran("fetch_L194", net,
                    FetchImageButton(molecule_name, structure_type, net, files), "L235")
       ELSE Skip("L235")
    /\ UNCHANGED <<widgets, build, trigger, asmVars>>

\* lines 235-248
Line235 ==
    /\ pc = "L235"
    /\ rendered' = rendered \cup {"conformer"}
    /\ IF trigger = "conformer"
       THEN \E net \in NetOutcomes, enc \in {"ok", "raise"} :
                Ran("conformer_L235", net,
                    ConformerButton(molecule_name, net, enc, fps, files), "done")
       ELSE Skip("done")
    /\ UNCHANGED <<widgets, build, trigger, asmVars>>

Next ==
    \/ SetMoleculeName \/ SetStructureType \/ SetFps \/ Upload \/ SubmitQuestion
    \/ ClickFetch \/ ClickCreate \/ ClickConformer
    \/ Line49 \/ Line106 \/ Line173 \/ Line194 \/ Line235

Spec == Init /\ [][Next]_vars


(***************************************************************************)
(* create_video_and_gif.  File names are sequences of characters, so that  *)
(* endswith and the order sorted() puts them in are computed as Python     *)
(* computes them: by code point, left to right.                            *)
(***************************************************************************)
Ord == "." :> 46 @@ "/" :> 47 @@ "0" :> 48 @@ "1" :> 49 @@ "2" :> 50
       @@ "G" :> 71 @@ "N" :> 78 @@ "P" :> 80
       @@ "a" :> 97 @@ "b" :> 98 @@ "c" :> 99 @@ "e" :> 101 @@ "g" :> 103
       @@ "j" :> 106 @@ "m" :> 109 @@ "n" :> 110 @@ "p" :> 112 @@ "t" :> 116
       @@ "x" :> 120

\* what the folder may hold
FileNames == {
    <<"1", ".", "p", "n", "g">>,
    <<"2", ".", "p", "n", "g">>,
    <<"1", "0", ".", "p", "n", "g">>,
    <<"a", ".", "j", "p", "g">>,
    <<"b", ".", "j", "p", "e", "g">>,
    <<"n", ".", "t", "x", "t">>,
    <<"c", ".", "P", "N", "G">> }

FolderPath == <<"/", "t", "m", "p">>     \* a mkdtemp() directory
VideoPath  == "output_video.mp4"         \* line 77, default video_path
GifPath    == "output_animation.gif"     \* line 77, default gif_path
NoneNone   == <<"None", "None">>

\* os.listdir: every entry once, in no particular order
RECURSIVE Listings(_)
Listings(n) ==
    IF n = 0 THEN {<<>>}
    ELSE LET shorter == Listings(n - 1)
         IN  shorter \cup
             {Append(p[1], p[2]) :
                 p \in {q \in shorter \X FileNames :
                           /\ Len(q[1]) = n - 1
                           /\ \A i \in 1..Len(q[1]) : q[1][i] # q[2]}}

\* str.endswith(suffix)
EndsWith(s, suffix) ==
    /\ Len(s) >= Len(suffix)
    /\ SubSeq(s, Len(s) - Len(suffix) + 1, Len(s)) = suffix

\* line 79: img.endswith((".png", ".jpg", ".jpeg"))
IsImageName(name) ==
    \/ EndsWith(name, <<".", "p", "n", "g">>)
    \/ EndsWith(name, <<".", "j", "p", "g">>)
    \/ EndsWith(name, <<".", "j", "p", "e", "g">>)

\* os.path.join(folder_path, img)
Join(dir, name) == dir \o <<"/">> \o name

\* Python's < on str
RECURSIVE LexLess(_, _)
LexLess(s, t) ==
    IF t = <<>> THEN FALSE
    ELSE IF s = <<>> THEN TRUE
    ELSE IF Ord[Head(s)] # Ord[Head(t)] THEN Ord[Head(s)] < Ord[Head(t)]
    ELSE LexLess(Tail(s), Tail(t))

\* sorted(): insertion into an ordered list, equal elements kept in order
RECURSIVE Insert(_, _)
Insert(x, sortedSeq) ==
    IF sortedSeq = <<>> THEN <<x>>
    ELSE IF LexLess(x, Head(sortedSeq)) THEN <<x>> \o sortedSeq
    ELSE <<Head(sortedSeq)>> \o Insert(x, Tail(sortedSeq))

RECURSIVE Sorted(_)
Sorted(s) ==
    IF s = <<>> THEN <<>>
    ELSE Insert(s[Len(s)], Sorted(SubSeq(s, 1, Len(s) - 1)))

\* the list comprehension of line 79
RECURSIVE Comprehension(_, _)
Comprehension(dir, listing) ==
    IF listing = <<>> THEN <<>>
    ELSE (IF IsImageName(Head(listing)) THEN <<Join(dir, Head(listing))>> ELSE <<>>)
         \o Comprehension(dir, Tail(listing))

RECURSIVE JoinAll(_, _)
JoinAll(dir, listing) ==
    IF listing = <<>> THEN <<>>
    ELSE <<Join(dir, Head(listing))>> \o JoinAll(dir, Tail(listing))

\* The listing left in directory order.
ListImages_Unsorted(dir, listing) == Comprehension(dir, listing)

\* Every entry of the folder taken for an image.
ListImages_NoFilter(dir, listing) == Sorted(JoinAll(dir, listing))

\* lines 78-80
ListImages(dir, listing) == Sorted(Comprehension(dir, listing))

\* line 86: ImageSequenceClip(images, fps): image i shows from (i-1)/fps on
ImageSequenceClip(imgs, f) == [sequence |-> imgs, fps |-> f]

\* A writer at rate w takes the frame shown at k/w for every k/w before the
\* end of the clip, Len/fps.
FramesAt(c, w) ==
    [k \in 1..((Len(c.sequence) * w) \div c.fps) |->
        c.sequence[(((k - 1) * c.fps) \div w) + 1]]

\* line 94: clip.write_videofile(video_path, codec="libx264"), at the clip's rate
write_videofile(c, path) == [path |-> path, frames |-> FramesAt(c, c.fps), fps |-> c.fps]

\* line 98: clip.write_gif(gif_path, fps=fps)
write_gif(c, path, f) == [path |-> path, frames |-> FramesAt(c, f), fps |-> f]

\* A progress bar stepped through 20%, 40%, ... on its way to 100%.
ProgressDone_Stepped(p) == p \o <<20, 40, 60, 80, 100>>

\* line 89: st.progress(0)
ProgressStart(p) == Append(p, 0)

\* line 100: progress_bar.progress(100)
ProgressDone(p) == Append(p, 100)

\* the file at path replaced by (or created as) out
Store(outs, out) == {o \in outs : o.path # out.path} \cup {out}

\* what an earlier call may have left in the working directory
StaleOutputs ==
    LET c == ImageSequenceClip(<<Join(FolderPath, <<"1", ".", "p", "n", "g">>)>>, DefaultFps)
    IN  {write_videofile(c, VideoPath), write_gif(c, GifPath, DefaultFps)}

PageIdle ==
    /\ duplicateButton = "rejected" /\ extractOneArity = 3
    /\ molecule_name = "" /\ structure_type = "2D Structure" /\ fps = DefaultFps
    /\ uploaded_files = {} /\ user_input = "" /\ trigger = "widget"
    /\ pc = "done" /\ rendered = TopWidgets /\ calls = <<>> /\ files = {}

\* create_video_and_gif(folder_path, fps=fps) is entered
InitAssemble ==
    /\ PageIdle
    /\ apc = "L78"
    /\ folder \in Listings(MaxFiles)
    /\ afps \in FpsChoices
    /\ outputs \in {{}, StaleOutputs}
    /\ images = <<>> /\ clip = <<>> /\ progress = <<>>
    /\ written = {} /\ aret = <<>> /\ amsgs = <<>>

\* lines 78-84
AsmList ==
    /\ apc = "L78"
    /\ images' = ListImages(FolderPath, folder)
    /\ IF images' = <<>>
       THEN /\ amsgs' = Append(amsgs,
                   "error: No valid images found. Please upload PNG, JPG, or JPEG files.")
            /\ aret' = NoneNone
            /\ apc' = "returned"
       ELSE /\ apc' = "L86"
            /\ UNCHANGED <<amsgs, aret>>
    /\ UNCHANGED <<folder, afps, clip, progress, written, outputs, pageVars>>

\* line 86: the clip is built, unless the library refuses the images
\* (unreadable, or not all of one size)
AsmClip ==
    /\ apc = "L86"
    /\ \E ok \in BOOLEAN :
          IF ok
          THEN /\ clip' = ImageSequenceClip(images, afps)
               /\ apc' = "L89"
          ELSE /\ clip' = clip
               /\ apc' = "raised"
    /\ UNCHANGED <<folder, afps, images, progress, written, outputs, aret, amsgs, pageVars>>

\* lines 89-90
AsmProgressBar ==
    /\ apc = "L89"
    /\ progress' = ProgressStart(progress)
    /\ apc' = "L93"
    /\ UNCHANGED <<folder, afps, images, clip, written, outputs, aret, amsgs, pageVars>>

\* an encoder that died after k frames leaves a file holding them
Partial(out, k) == [out EXCEPT !.frames = SubSeq(@, 1, k)]

\* lines 93-94
AsmWriteVideo ==
    /\ apc = "L93"
    /\ amsgs' = Append(amsgs, "info: Creating Video... This may take a few seconds.")
    /\ LET out == write_videofile(clip, VideoPath)
       IN  \E k \in 0..Len(out.frames) :
              /\ outputs' = Store(outputs, Partial(out, k))
              /\ apc' = IF k = Len(out.frames) THEN "L97" ELSE "raised"
    /\ written' = written \cup {VideoPath}
    /\ UNCHANGED <<folder, afps, images, clip, progress, aret, pageVars>>

\* lines 97-98
AsmWriteGif ==
    /\ apc = "L97"
    /\ amsgs' = Append(amsgs, "info: Creating GIF... Please wait.")
    /\ LET out == write_gif(clip, GifPath, afps)
       IN  \E k \in 0..Len(out.frames) :
              /\ outputs' = Store(outputs, Partial(out, k))
              /\ apc' = IF k = Len(out.frames) THEN "L100" ELSE "raised"
    /\ written' = written \cup {GifPath}
    /\ UNCHANGED <<folder, afps, images, clip, progress, aret, pageVars>>

\* lines 100-103
AsmFinish ==
    /\ apc = "L100"
    /\ progress' = ProgressDone(progress)
    /\ amsgs' = Append(amsgs, "text: Video & GIF Creation Complete!")
    /\ aret' = <<VideoPath, GifPath>>
    /\ apc' = "returned"
    /\ UNCHANGED <<folder, afps, images, clip, written, outputs, pageVars>>

NextAssemble ==
    \/ AsmList \/ AsmClip \/ AsmProgressBar \/ AsmWriteVideo \/ AsmWriteGif \/ AsmFinish

SpecAssemble == InitAssemble /\ [][NextAssemble]_vars


(***************************************************************************)
(* Properties of the page (Spec)                                           *)
(***************************************************************************)
FetchHandlers == {"fetch_L49", "fetch_L194"}
EmptyWarning  == <<"warning: Please enter a molecule name.">>
NotFoundError == <<"error: Molecule image not found. Check the name and try again.">>

\* C1: a Fetch Image or Download 3D Conformer Video click with an empty
\* molecule name ends every fetch with the warning and the result None, and
\* no handler of that run issues a network request.
C1_EmptyNameNoRequest ==
    (trigger \in {"fetch", "conformer"} /\ molecule_name = "") =>
        \A i \in DOMAIN calls :
            /\ calls[i].requests = <<>>
            /\ calls[i].handler \in FetchHandlers \cup {"conformer_L235"} =>
                  /\ calls[i].ret = "None"
                  /\ calls[i].exc = "none"
                  /\ calls[i].msgs = EmptyWarning

C1_Witness ==
    /\ RunEnded /\ molecule_name = ""
    /\ \E i \in DOMAIN calls : calls[i].handler = "fetch_L49"

C10_SavedIffImage ==
    \A i \in DOMAIN calls :
        calls[i].handler \in FetchHandlers =>
            LET c   == calls[i]
                got == c.ret = "Image" /\ c.exc = "none"
            IN  /\ got => (molecule_name # "" /\ c.input.kind = "response"
                           /\ c.input.status = HttpOk)
                /\ (c.saved # <<>>) <=> got
                /\ got => /\ c.saved = <<molecule_name \o ".png">>
                          /\ c.fsAfter = c.fsBefore \cup {molecule_name \o ".png"}
                /\ ~got => c.fsAfter = c.fsBefore
                /\ i = Len(calls) => files = c.fsAfter

C10_Witness ==
    /\ "Water.png" \in files
    /\ \E i \in DOMAIN calls :
          /\ calls[i].handler = "fetch_L49"
          /\ calls[i].saved = <<"Water.png">>
          /\ "Water.png" \notin calls[i].fsBefore

OwnHandlers(t) ==
    CASE t = "fetch"     -> FetchHandlers
      [] t = "create"    -> {"create_L106"}
      [] t = "conformer" -> {"conformer_L235"}
      [] t = "question"  -> {"chat_L173"}
      [] OTHER           -> {}

\* C6: a user action runs exactly one handler, its own: the run a click or
\* a submitted question starts never executes a second handler body, and the
\* one it executes is the handler of that click or question.
C6_OneHandlerPerAction ==
    trigger \in {"fetch", "create", "conformer", "question"} =>
        /\ Len(calls) <= 1
        /\ \A i \in DOMAIN calls : calls[i].handler \in OwnHandlers(trigger)

\* C7, in the instance it names: a Create Video & GIF click ends with the
\* downloads offered or a message reported, never in an uncaught exception.
C7_CreateClickHandled ==
    \A i \in DOMAIN calls :
        calls[i].handler = "create_L106" =>
            /\ calls[i].exc = "none"
            /\ \E k \in DOMAIN calls[i].msgs :
                  calls[i].msgs[k] \in {"warning: Please upload images first.",
                                        "download: molecule_animation.mp4"}

\* C3: the answer is the fallback when the best score is at most 75 and the
\* answer of the best-scoring key when it is above 75.
C3_ThresholdDecides ==
    \A i \in DOMAIN calls :
        calls[i].handler = "chat_L173" =>
            /\ calls[i].exc = "none"
            /\ calls[i].ret = IF calls[i].input.score > Threshold
                              THEN faq_data[FaqAnswer(calls[i].input.key)].a
                              ELSE Fallback

\* C9: a question equal to a FAQ key gets that key's answer.
C9_ExactKeyAnswered ==
    \A i \in DOMAIN calls :
        (calls[i].handler = "chat_L173" /\ user_input \in FaqKeys) =>
            /\ calls[i].exc = "none"
            /\ calls[i].ret = faq_data[FaqAnswer(user_input)].a

(***************************************************************************)
(* Properties of create_video_and_gif (SpecAssemble)                       *)
(***************************************************************************)
NoEligible    == \A i \in DOMAIN folder : ~IsImageName(folder[i])
EligiblePaths == {Join(FolderPath, folder[i]) :
                     i \in {k \in DOMAIN folder : IsImageName(folder[k])}}
NoImagesError ==
    <<"error: No valid images found. Please upload PNG, JPG, or JPEG files.">>

\* C4: on a folder with no .png, .jpg or .jpeg name the function shows the
\* error and returns (None, None); it builds no clip, starts no encoder and
\* writes neither output file.
C4_EmptyFolderWritesNothing ==
    NoEligible =>
        /\ apc \in {"L78", "returned"}
        /\ clip = <<>> /\ progress = <<>> /\ written = {}
        /\ outputs \in {{}, StaleOutputs}
        /\ apc = "returned" => (aret = NoneNone /\ amsgs = NoImagesError)

C4_Witness ==
    /\ apc = "returned" /\ NoEligible /\ folder # <<>> /\ aret = NoneNone

\* C5: when the function returns on a folder with images, the video and the
\* GIF each hold one frame per image, in ascending order of file name, the
\* same frames in both, both at the requested fps.
C5_FramesSortedAndEqual ==
    (apc = "returned" /\ ~NoEligible) =>
        /\ aret = <<VideoPath, GifPath>>
        /\ written = {VideoPath, GifPath}
        /\ \E v \in outputs, g \in outputs :
              /\ v.path = VideoPath /\ g.path = GifPath
              /\ Len(v.frames) = Cardinality(EligiblePaths)
              /\ {v.frames[i] : i \in DOMAIN v.frames} = EligiblePaths
              /\ \A i \in DOMAIN v.frames, j \in DOMAIN v.frames :
                    i < j => LexLess(v.frames[i], v.frames[j])
              /\ g.frames = v.frames
              /\ v.fps = afps /\ g.fps = afps

C5_Witness ==
    /\ apc = "returned" /\ aret = <<VideoPath, GifPath>>
    /\ \E i \in DOMAIN folder, j \in DOMAIN folder :
          /\ i < j
          /\ folder[i] = <<"2", ".", "p", "n", "g">>
          /\ folder[j] = <<"1", "0", ".", "p", "n", "g">>

\* C8 as stated: a successful call shows 0%, 20%, 40%, 60%, 80%, 100%.
C8_ProgressInSteps ==
    (apc = "returned" /\ aret # NoneNone) => progress = <<0, 20, 40, 60, 80, 100>>

\* C8 as amended: the progress bar shows 0% and then 100%, nothing between:
\* 0% before any file is written, 100% only once both files are written in
\* full, and the call returns the two fixed paths.
C8_ProgressZeroThenHundred ==
    /\ progress \in {<<>>, <<0>>, <<0, 100>>}
    /\ written # {} => progress # <<>>
    /\ progress = <<0, 100>> =>
          /\ written = {VideoPath, GifPath}
          /\ \A o \in outputs : Len(o.frames) = Len(images)
    /\ (apc = "returned" /\ aret # NoneNone) =>
          (progress = <<0, 100>> /\ aret = <<VideoPath, GifPath>>)

C8_Witness ==
    /\ apc = "returned" /\ progress = <<0, 100>> /\ Len(images) > 1

====
